---- MODULE Spec2Model ----
(***************************************************************************)
(* Model of data_structures/multi_layer_cluster.py: MultiLayerCluster      *)
(* clusters points of several layers.  cluster_all_layers builds, with one *)
(* KD-tree per non-empty layer, a list of neighbour lists over the global  *)
(* point indices; compress_match merges it with a union-find structure.    *)
(*                                                                         *)
(* Points are k-dimensional tuples in the program; the model takes k = 1   *)
(* and integer coordinates, so a point is an integer and the Euclidean     *)
(* comparison d <= r is decided exactly on squares.  Python indices are    *)
(* 0-based and are kept 0-based as VALUES; TLA+ sequences are 1-based, so  *)
(* the entry of global index g is match_all_layers[g + 1].                 *)
(***************************************************************************)
EXTENDS Integers, Sequences, FiniteSets

\* ------------------------------------------------------------------ bounds
MaxLayers == 3      \* layers per instance
MaxPoints == 3      \* points per instance, over all its layers
MaxCalls == 3       \* calls of cluster_all_layers on one instance
MaxMatchLen == 4    \* length of the accumulated match list

\* The coordinates: three collinear positions at unit spacing, so that with
\* radius 0 only coinciding points match, with radius 1 the positions 0, 1, 2
\* form a chain whose ends do not match each other.
Coords == {0, 1, 2}

\* The radii.  Non-negative radii are the interface's domain: 0 matches only
\* coinciding points, 1 also the points of neighbouring positions.  -1 stands
\* for a negative radius.
NonNegRadii == {0, 1}
Radii == {-1} \cup NonNegRadii

VARIABLES
    layers,             \* self.layers
    match_all_layers,   \* self.match_all_layers
    layers_combined,    \* self.layers_combined
    layer_start_idx,    \* self.layer_start_idx
    layers_tree,        \* self.layers_tree
    num_layers,         \* self.num_layers
    self_r, other_r,    \* the arguments of the last cluster_all_layers call
    calls,              \* number of cluster_all_layers calls so far
    queries,            \* the query_ball_tree calls <<i, j>> the last call issued
    ret                 \* what the last call handed back to the caller

vars == <<layers, match_all_layers, layers_combined, layer_start_idx,
          layers_tree, num_layers, self_r, other_r, calls, queries, ret>>

\* ------------------------------------------------------- scipy.spatial.KDTree
\* Python's None, the entry of self.layers_tree for an empty layer.
None == [tree |-> FALSE]

\* spatial.KDTree(layer): the tree is characterised by the data it indexes.
KDTree(layer) == [tree |-> TRUE, data |-> layer]

Dist2(p, q) == (p - q) * (p - q)

\* (mutant) the comparison is inverted.
InBallInverted(p, q, r, sq) ==
    IF r < 0 /\ ~sq THEN FALSE ELSE Dist2(p, q) >= r * r

\* Whether q lies in the ball of radius r around p.  For r >= 0 this is
\* d <= r (inclusive).  A negative r is outside query_ball_tree's documented
\* domain and its outcome depends on the scipy build: the compiled tree
\* compares squared distances (d^2 <= r^2, sq = TRUE), the pure-Python tree
\* prunes every node (no match, sq = FALSE).
InBall(p, q, r, sq) ==
    IF r < 0 /\ ~sq THEN FALSE ELSE Dist2(p, q) <= r * r

\* tree.query_ball_tree(other, r): for every point of tree, the (0-based)
\* indices of the points of other within r of it.
query_ball_tree(tree, other, r, sq) ==
    [k \in 1..Len(tree.data) |->
        SelectSeq([n \in 1..Len(other.data) |-> n - 1],
                  LAMBDA m : InBall(tree.data[k], other.data[m + 1], r, sq))]

\* ----------------------------------------------------------------- _shift_idx
\* (mutant) the shifted lists are dropped and the local indices kept.
_shift_idx_unshifted(match_ij, start_idx) ==
    [i \in 1..Len(match_ij) |->
        [n \in 1..Len(match_ij[i]) |-> match_ij[i][n]]]

\* The lists of match_ij with start_idx added to every index.
_shift_idx(match_ij, start_idx) ==
    [i \in 1..Len(match_ij) |->
        [n \in 1..Len(match_ij[i]) |-> match_ij[i][n] + start_idx]]

\* ------------------------------------------------------------------- __init__
\* (mutant) the offset is recorded after the layer was added.
RECURSIVE InitLoopOffsetAfter(_, _)
InitLoopOffsetAfter(ls, n) ==
    IF n = 0
    THEN [layers_combined |-> <<>>, layer_start_idx |-> <<>>, layers_tree |-> <<>>]
    ELSE LET s == InitLoopOffsetAfter(ls, n - 1)
             layer == ls[n]
         IN  [layer_start_idx |-> Append(s.layer_start_idx,
                                         Len(s.layers_combined \o layer)),
              layers_tree |-> Append(s.layers_tree,
                                     IF Len(layer) > 0 THEN KDTree(layer) ELSE None),
              layers_combined |-> s.layers_combined \o layer]

\* The fields after the first n iterations of the loop over layers.
RECURSIVE InitLoop(_, _)
InitLoop(ls, n) ==
    IF n = 0
    THEN [layers_combined |-> <<>>, layer_start_idx |-> <<>>, layers_tree |-> <<>>]
    ELSE LET s == InitLoop(ls, n - 1)
             layer == ls[n]
         IN  [layer_start_idx |-> Append(s.layer_start_idx, Len(s.layers_combined)),
              layers_tree |-> Append(s.layers_tree,
                                     IF Len(layer) > 0 THEN KDTree(layer) ELSE None),
              layers_combined |-> s.layers_combined \o layer]

Construct(ls) == InitLoop(ls, Len(ls))

\* MultiLayerCluster(layers): the object after construction.
MultiLayerCluster(ls) ==
    LET f == Construct(ls)
    IN  [layers |-> ls,
         match_all_layers |-> <<>>,
         layers_combined |-> f.layers_combined,
         layer_start_idx |-> f.layer_start_idx,
         layers_tree |-> f.layers_tree,
         num_layers |-> Len(ls)]

\* --------------------------------------------------------- cluster_all_layers
\* (mutant) only the next layer is queried, not every later layer.
InnerLoopNextOnly(self, i, j, or, sq, acc) ==
    IF j >= self.num_layers \/ j > i + 1 THEN acc
    ELSE LET tree_i == self.layers_tree[i + 1]
             tree_j == self.layers_tree[j + 1]
             n_i == Len(self.layers[i + 1])
             raw == IF tree_j # None
                    THEN query_ball_tree(tree_i, tree_j, or, sq)
                    ELSE [k \in 1..n_i |-> <<>>]
             match_ij == _shift_idx(raw, self.layer_start_idx[j + 1])
         IN  [match_i |-> [k \in 1..n_i |-> acc.match_i[k] \o match_ij[k]],
              queries |-> IF tree_j # None
                          THEN Append(acc.queries, <<i, j>>)
                          ELSE acc.queries]

\* (mutant) an absent tree_j ends the scan of the later layers.
RECURSIVE InnerLoopBreakOnEmpty(_, _, _, _, _, _)
InnerLoopBreakOnEmpty(self, i, j, or, sq, acc) ==
    IF j >= self.num_layers THEN acc
    ELSE LET tree_i == self.layers_tree[i + 1]
             tree_j == self.layers_tree[j + 1]
             n_i == Len(self.layers[i + 1])
         IN  IF tree_j = None THEN acc
             ELSE LET match_ij == _shift_idx(query_ball_tree(tree_i, tree_j, or, sq),
                                             self.layer_start_idx[j + 1])
                  IN  InnerLoopBreakOnEmpty(self, i, j + 1, or, sq,
                          [match_i |-> [k \in 1..n_i |->
                                           acc.match_i[k] \o match_ij[k]],
                           queries |-> Append(acc.queries, <<i, j>>)])

\* for j in range(j, num_layers), for layer i (0-based) with tree_i present:
\* acc.match_i is the running neighbour lists of layer i, acc.queries the
\* query_ball_tree calls issued so far.
RECURSIVE InnerLoop(_, _, _, _, _, _)
InnerLoop(self, i, j, or, sq, acc) ==
    IF j >= self.num_layers THEN acc
    ELSE LET tree_i == self.layers_tree[i + 1]
             tree_j == self.layers_tree[j + 1]
             n_i == Len(self.layers[i + 1])
             raw == IF tree_j # None
                    THEN query_ball_tree(tree_i, tree_j, or, sq)
                    ELSE [k \in 1..n_i |-> <<>>]
             match_ij == _shift_idx(raw, self.layer_start_idx[j + 1])
         IN  InnerLoop(self, i, j + 1, or, sq,
                 [match_i |-> [k \in 1..n_i |-> acc.match_i[k] \o match_ij[k]],
                  queries |-> IF tree_j # None
                              THEN Append(acc.queries, <<i, j>>)
                              ELSE acc.queries])

\* (mutant) an empty layer contributes one empty neighbour list.
LayerMatchPlaceholder(self, i, sr, or, sq) ==
    LET tree_i == self.layers_tree[i + 1]
    IN  IF tree_i # None
        THEN LET match_ii == query_ball_tree(tree_i, tree_i, sr, sq)
                 match_i == _shift_idx(match_ii, self.layer_start_idx[i + 1])
             IN  InnerLoop(self, i, i + 1, or, sq,
                           [match_i |-> match_i, queries |-> <<<<i, i>>>>])
        ELSE [match_i |-> <<<<>>>>, queries |-> <<>>]

\* (mutant) the inner loop starts at layer i itself: range(i, num_layers).
LayerMatchFromSelf(self, i, sr, or, sq) ==
    LET tree_i == self.layers_tree[i + 1]
    IN  IF tree_i # None
        THEN LET match_ii == query_ball_tree(tree_i, tree_i, sr, sq)
                 match_i == _shift_idx(match_ii, self.layer_start_idx[i + 1])
             IN  InnerLoop(self, i, i, or, sq,
                           [match_i |-> match_i, queries |-> <<<<i, i>>>>])
        ELSE [match_i |-> <<>>, queries |-> <<>>]

\* One iteration of the outer loop: the neighbour lists of layer i.
LayerMatch(self, i, sr, or, sq) ==
    LET tree_i == self.layers_tree[i + 1]
    IN  IF tree_i # None
        THEN LET match_ii == query_ball_tree(tree_i, tree_i, sr, sq)
                 match_i == _shift_idx(match_ii, self.layer_start_idx[i + 1])
             IN  InnerLoop(self, i, i + 1, or, sq,
                             [match_i |-> match_i, queries |-> <<<<i, i>>>>])
        ELSE [match_i |-> <<>>, queries |-> <<>>]

\* for i in range(i, num_layers): acc.match is self.match_all_layers.
RECURSIVE OuterLoop(_, _, _, _, _, _)
OuterLoop(self, i, sr, or, sq, acc) ==
    IF i >= self.num_layers THEN acc
    ELSE LET m == LayerMatch(self, i, sr, or, sq)
         IN  OuterLoop(self, i + 1, sr, or, sq,
                       [match |-> acc.match \o m.match_i,
                        queries |-> acc.queries \o m.queries])

\* (mutant) the two radii are taken in the other order.
cluster_all_layers_swapped(self, sr, or, sq) ==
    OuterLoop(self, 0, or, sr, sq,
              [match |-> self.match_all_layers, queries |-> <<>>])

\* (mutant) the match list is reset at the start of the call.
cluster_all_layers_reset(self, sr, or, sq) ==
    OuterLoop(self, 0, sr, or, sq, [match |-> <<>>, queries |-> <<>>])

\* cluster_all_layers(self_r, other_r): the new self.match_all_layers (which is
\* also the value returned) and the queries issued.
cluster_all_layers(self, sr, or, sq) ==
    OuterLoop(self, 0, sr, or, sq,
              [match |-> self.match_all_layers, queries |-> <<>>])

\* ------------------------------------------------------------------ UnionFind
\* data_structures/union_find.py: a disjoint-set structure over 0..n-1.
UnionFind(n) == [n |-> n, parent |-> [a \in 0..(n - 1) |-> a]]

RECURSIVE find(_, _)
find(uf, a) == IF uf.parent[a] = a THEN a ELSE find(uf, uf.parent[a])

union(uf, a, b) ==
    LET ra == find(uf, a)
        rb == find(uf, b)
    IN  IF ra = rb THEN uf ELSE [uf EXCEPT !.parent[rb] = ra]

\* list_unions(): root -> the indices of its set, in increasing order.
list_unions(uf) ==
    LET roots == {find(uf, a) : a \in 0..(uf.n - 1)}
    IN  [r \in roots |->
            SelectSeq([n \in 1..uf.n |-> n - 1], LAMBDA a : find(uf, a) = r)]

\* ------------------------------------------------------------- compress_match
\* for j in connect: uf.union(i, j), from position n of connect on.
RECURSIVE ConnectLoop(_, _, _, _)
ConnectLoop(uf, i, connect, n) ==
    IF n > Len(connect) THEN uf
    ELSE ConnectLoop(union(uf, i, connect[n]), i, connect, n + 1)

\* for i, connect in enumerate(self.match_all_layers), from index i on.
RECURSIVE EnumLoop(_, _, _)
EnumLoop(uf, match, i) ==
    IF i >= Len(match) THEN uf
    ELSE EnumLoop(ConnectLoop(uf, i, match[i + 1], 1), match, i + 1)

compress_match(self) ==
    list_unions(EnumLoop(UnionFind(Len(self.match_all_layers)),
                         self.match_all_layers, 0))

\* --------------------------------------------------------------- the instance
Self ==
    [layers |-> layers,
     match_all_layers |-> match_all_layers,
     layers_combined |-> layers_combined,
     layer_start_idx |-> layer_start_idx,
     layers_tree |-> layers_tree,
     num_layers |-> num_layers]

\* The layers with at most n points.
LayersUpTo(n) == UNION {[1..k -> Coords] : k \in 0..n}

RECURSIVE TotalLen(_)
TotalLen(ls) == IF ls = <<>> THEN 0 ELSE Len(Head(ls)) + TotalLen(Tail(ls))

\* The sequences of m layers with at most n points in all.
RECURSIVE LayerSeqs(_, _)
LayerSeqs(m, n) ==
    IF m = 0 THEN {<<>>}
    ELSE UNION {{Append(ls, l) : l \in LayersUpTo(n - TotalLen(ls))} :
                ls \in LayerSeqs(m - 1, n)}

LayerSets == UNION {LayerSeqs(m, MaxPoints) : m \in 0..MaxLayers}

\* dsa = MultiLayerCluster(layers).  No call has been made yet: self_r and
\* other_r hold 0 until the first cluster_all_layers sets them.
Init ==
    \E ls \in LayerSets :
        LET o == MultiLayerCluster(ls)
        IN  /\ layers = o.layers
            /\ match_all_layers = o.match_all_layers
            /\ layers_combined = o.layers_combined
            /\ layer_start_idx = o.layer_start_idx
            /\ layers_tree = o.layers_tree
            /\ num_layers = o.num_layers
            /\ self_r = 0
            /\ other_r = 0
            /\ calls = 0
            /\ queries = <<>>
            /\ ret = [op |-> "__init__", raised |-> FALSE, val |-> <<>>]

\* dsa.cluster_all_layers(sr, or), the radii drawn from R.  The method has no
\* early return and raises nothing: it always appends and returns the list.
\* sq is the KD-tree's treatment of a negative radius (see InBall).
ClusterAllLayers(R) ==
    /\ calls < MaxCalls
    /\ Len(match_all_layers) + Len(layers_combined) <= MaxMatchLen
    /\ \E sr \in R, or \in R :
         \E sq \in (IF sr < 0 \/ or < 0 THEN BOOLEAN ELSE {TRUE}) :
            LET r == cluster_all_layers(Self, sr, or, sq)
            IN  /\ match_all_layers' = r.match
                /\ queries' = r.queries
                /\ ret' = [op |-> "cluster_all_layers", raised |-> FALSE,
                           val |-> r.match]
                /\ self_r' = sr
                /\ other_r' = or
    /\ calls' = calls + 1
    /\ UNCHANGED <<layers, layers_combined, layer_start_idx, layers_tree,
                   num_layers>>

\* dsa.compress_match(): reads the match list, changes no field.
CompressMatch ==
    /\ ret' = [op |-> "compress_match", raised |-> FALSE,
               val |-> compress_match(Self)]
    /\ UNCHANGED <<layers, match_all_layers, layers_combined, layer_start_idx,
                   layers_tree, num_layers, self_r, other_r, calls, queries>>

\* A caller that keeps to the interface: non-negative radii.
Next == ClusterAllLayers(NonNegRadii) \/ CompressMatch

Spec == Init /\ [][Next]_vars

\* A caller that may also pass a negative radius.
NextAnyRadius == ClusterAllLayers(Radii) \/ CompressMatch

SpecAnyRadius == Init /\ [][NextAnyRadius]_vars

\* ======================================================= what the claims say
\* The vocabulary of the claims, defined from the layers alone and not from the
\* fields the constructor derives.
Range(seq) == {seq[n] : n \in 1..Len(seq)}

\* Number of points in the layers before layer i (0-based).
RECURSIVE Offset(_, _)
Offset(ls, i) == IF i = 0 THEN 0 ELSE Offset(ls, i - 1) + Len(ls[i])

NumPoints(ls) == Offset(ls, Len(ls))

\* The points, as <<layer, local index>>, both 0-based.
Pts(ls) ==
    UNION {{<<i - 1, k - 1>> : k \in 1..Len(ls[i])} : i \in 1..Len(ls)}

Coord(ls, p) == ls[p[1] + 1][p[2] + 1]

GlobalIdx(ls, p) == Offset(ls, p[1]) + p[2]

\* Two points match: within sr in one layer, within or across layers.
Matches(ls, p, q, sr, or) ==
    IF p[1] = q[1]
    THEN Dist2(Coord(ls, p), Coord(ls, q)) <= sr * sr
    ELSE Dist2(Coord(ls, p), Coord(ls, q)) <= or * or

\* The points connected to those of S by a chain of matches.
RECURSIVE Reach(_, _, _, _)
Reach(ls, S, sr, or) ==
    LET T == S \cup {q \in Pts(ls) : \E p \in S : Matches(ls, p, q, sr, or)}
    IN  IF T = S THEN S ELSE Reach(ls, T, sr, or)

\* Two indices share a cluster of a partition (root -> list of indices).
SameCluster(part, a, b) ==
    \E r \in DOMAIN part : a \in Range(part[r]) /\ b \in Range(part[r])

\* The cluster (its root) of every index of a partition.
ClusterOf(part) ==
    [g \in UNION {Range(part[r]) : r \in DOMAIN part} |->
        CHOOSE r \in DOMAIN part : g \in Range(part[r])]

\* The indices of a partition.
Members(part) == UNION {Range(part[r]) : r \in DOMAIN part}

\* A fresh instance taken through one cluster_all_layers(sr, or).
Clustered(ls, sr, or) ==
    LET fresh == MultiLayerCluster(ls)
    IN  [fresh EXCEPT
            !.match_all_layers = cluster_all_layers(fresh, sr, or, TRUE).match]

\* ... and then through compress_match().
Pipeline(ls, sr, or) == compress_match(Clustered(ls, sr, or))

AfterOneCluster == calls = 1 /\ ret.op = "cluster_all_layers"
AfterOneCompress == calls = 1 /\ ret.op = "compress_match"

\* C1: on a fresh instance, after one cluster_all_layers with non-negative radii
\* and compress_match, two global indices share a cluster exactly when a chain
\* of matches connects their points (same layer: within self_r, different
\* layers: within other_r).
C1_ConnectedComponents ==
    AfterOneCompress =>
        \A p \in Pts(layers) :
            LET component == Reach(layers, {p}, self_r, other_r)
            IN  \A q \in Pts(layers) :
                    SameCluster(ret.val, GlobalIdx(layers, p), GlobalIdx(layers, q))
                        <=> q \in component

\* A chain: two points of different layers share a cluster without matching
\* each other, and the two radii differ.
C1_Witness ==
    /\ AfterOneCompress
    /\ self_r # other_r
    /\ \E p \in Pts(layers), q \in Pts(layers) :
          /\ p[1] # q[1]
          /\ ~Matches(layers, p, q, self_r, other_r)
          /\ SameCluster(ret.val, GlobalIdx(layers, p), GlobalIdx(layers, q))

\* C2: the partition compress_match returns after cluster_all_layers holds every
\* global index 0..N-1 in exactly one cluster, once, and no other index.
C2_PartitionComplete ==
    AfterOneCompress =>
        /\ Members(ret.val) = 0..(NumPoints(layers) - 1)
        /\ \A g \in 0..(NumPoints(layers) - 1) :
              /\ Cardinality({r \in DOMAIN ret.val : g \in Range(ret.val[r])}) = 1
              /\ \A r \in DOMAIN ret.val :
                    Cardinality({n \in 1..Len(ret.val[r]) : ret.val[r][n] = g}) <= 1

\* Several clusters, one of them with several points, and an empty layer.
C2_Witness ==
    /\ AfterOneCompress
    /\ Cardinality(DOMAIN ret.val) >= 2
    /\ \E r \in DOMAIN ret.val : Len(ret.val[r]) >= 2
    /\ \E i \in 1..Len(layers) : layers[i] = <<>>

\* The constructor's fields, as the layers determine them.
C3_Fields ==
    /\ Len(layer_start_idx) = Len(layers)
    /\ Len(layers_tree) = Len(layers)
    /\ num_layers = Len(layers)
    /\ \A i \in 1..Len(layers) :
          /\ layer_start_idx[i] = Offset(layers, i - 1)
          /\ i > 1 => layer_start_idx[i - 1] <= layer_start_idx[i]
          /\ (layers_tree[i] = None) <=> (layers[i] = <<>>)
    /\ Len(layers_combined) = NumPoints(layers)

C3_Unchanged ==
    UNCHANGED <<layers, layers_combined, layer_start_idx, layers_tree, num_layers>>

\* C3: after construction layer_start_idx has one entry per layer, is
\* non-decreasing and holds the number of points of the layers before; the
\* length of layers_combined is the number of points; layers_tree[i] is None
\* exactly when layer i is empty; and no operation changes these fields.
C3_ConstructedFields == [](C3_Fields) /\ [][C3_Unchanged]_vars

\* Both operations have run on an instance with an empty layer between two
\* non-empty ones.
C3_Witness ==
    /\ ret.op = "compress_match"
    /\ calls >= 1
    /\ \E i \in 1..Len(layers), j \in 1..Len(layers), k \in 1..Len(layers) :
          i < j /\ j < k /\ layers[i] # <<>> /\ layers[j] = <<>> /\ layers[k] # <<>>

\* C4: after one cluster_all_layers on a fresh instance the adjacency list has
\* one entry per point, the entry at layer_start_idx[i] + k lists the matches of
\* the k-th point of layer i (in its own and the later layers), and every index
\* stored is a global index 0..N-1.
C4_AdjacencyList ==
    AfterOneCluster =>
        /\ Len(ret.val) = NumPoints(layers)
        /\ ret.val = match_all_layers
        /\ \A p \in Pts(layers) :
              Range(ret.val[layer_start_idx[p[1] + 1] + p[2] + 1])
                  = {GlobalIdx(layers, q) :
                        q \in {x \in Pts(layers) :
                                  /\ x[1] >= p[1]
                                  /\ Matches(layers, p, x, self_r, other_r)}}
        /\ \A n \in 1..Len(ret.val) :
              Range(ret.val[n]) \subseteq 0..(NumPoints(layers) - 1)

\* A point of a layer that is not the first has a neighbour in a later layer.
C4_Witness ==
    /\ AfterOneCluster
    /\ \E p \in Pts(layers), q \in Pts(layers) :
          /\ 0 < p[1]
          /\ p[1] < q[1]
          /\ layer_start_idx[p[1] + 1] > 0
          /\ GlobalIdx(layers, q) \in Range(ret.val[GlobalIdx(layers, p) + 1])

C5_Accumulated ==
    /\ Len(match_all_layers) = calls * NumPoints(layers)
    /\ ret.op = "compress_match" =>
          Members(ret.val) = 0..(calls * NumPoints(layers) - 1)

C5_Appends ==
    calls' = calls + 1 =>
        /\ Len(match_all_layers') = Len(match_all_layers) + NumPoints(layers)
        /\ SubSeq(match_all_layers', 1, Len(match_all_layers)) = match_all_layers

\* C5: every call of cluster_all_layers appends N entries to the retained match
\* list, so that after m calls it has m*N entries, and compress_match then
\* partitions the indices 0..m*N-1.
C5_RepeatedCallsAccumulate == [](C5_Accumulated) /\ [][C5_Appends]_vars

\* compress_match after a second call, on an instance with points.
C5_Witness ==
    /\ calls = 2
    /\ NumPoints(layers) >= 2
    /\ ret.op = "compress_match"
    /\ Cardinality(Members(ret.val)) = 2 * NumPoints(layers)

\* C6: a cluster_all_layers call with a negative radius reports a failure and
\* leaves the retained match list as it was.
C6_NegativeRadiusFailsFast ==
    [][(calls' = calls + 1 /\ (self_r' < 0 \/ other_r' < 0)) =>
          (ret'.raised /\ match_all_layers' = match_all_layers)]_vars

\* C7: with the layers fixed, two indices that share a cluster under
\* (self_r, other_r) share one under any radii that are not smaller.
C7_RadiusMonotonic ==
    AfterOneCompress =>
        \A sr \in NonNegRadii, or \in NonNegRadii :
            (self_r <= sr /\ other_r <= or) =>
                LET here == ClusterOf(ret.val)
                    larger == ClusterOf(Pipeline(layers, sr, or))
                IN  /\ DOMAIN larger = DOMAIN here
                    /\ \A a \in DOMAIN here, b \in DOMAIN here :
                          here[a] = here[b] => larger[a] = larger[b]

\* Larger radii exist, a cluster has several points and there are several
\* clusters for the larger radii to merge.
C7_Witness ==
    /\ AfterOneCompress
    /\ \E sr \in NonNegRadii, or \in NonNegRadii :
          /\ self_r < sr
          /\ other_r < or
          /\ Cardinality(DOMAIN Pipeline(layers, sr, or))
                 < Cardinality(DOMAIN ret.val)
    /\ Cardinality(DOMAIN ret.val) >= 2
    /\ \E r \in DOMAIN ret.val : Len(ret.val[r]) >= 2

\* The permutations of 1..n.
Perms(n) == {f \in [1..n -> 1..n] : \A a \in 1..n, b \in 1..n : f[a] = f[b] => a = b}

\* The layer orders of an instance of n layers, for every n the model reaches.
LayerOrders == [n \in 0..MaxLayers |-> Perms(n)]

\* The layers in the order f: position x holds layer f[x].
Permuted(ls, f) == [x \in 1..Len(ls) |-> ls[f[x]]]

\* Where the point p of ls is among the permuted layers.
Moved(f, p) == <<(CHOOSE x \in DOMAIN f : f[x] = p[1] + 1) - 1, p[2]>>

\* A reordering of ls: the permuted layers, and for every global index of ls
\* the global index its point has among them.
Reordering(ls, f) ==
    LET ls2 == Permuted(ls, f)
    IN  [layers |-> ls2,
         to |-> [g \in {GlobalIdx(ls, p) : p \in Pts(ls)} |->
                    LET p == CHOOSE x \in Pts(ls) : GlobalIdx(ls, x) = g
                    IN  GlobalIdx(ls2, Moved(f, p))]]

\* C8: for any permutation of the layers, the partition of the permuted layers
\* groups the points as the partition of the original order does.
C8_OrderIndependent ==
    AfterOneCompress =>
        LET here == ClusterOf(ret.val)
        IN  \A o \in {Reordering(layers, f) : f \in LayerOrders[Len(layers)]} :
                LET there == ClusterOf(Pipeline(o.layers, self_r, other_r))
                IN  /\ DOMAIN o.to = DOMAIN here
                    /\ {o.to[g] : g \in DOMAIN o.to} = DOMAIN there
                    /\ \A a \in DOMAIN here, b \in DOMAIN here :
                          here[a] = here[b] <=> there[o.to[a]] = there[o.to[b]]

\* Three non-empty layers; the first and the last are connected only by a match
\* between them, which the code finds from the first; reversed, from the last.
C8_Witness ==
    /\ AfterOneCompress
    /\ Len(layers) >= 3
    /\ \A i \in 1..Len(layers) : layers[i] # <<>>
    /\ \E p \in Pts(layers), q \in Pts(layers) :
          /\ p[1] = 0
          /\ q[1] = Len(layers) - 1
          /\ Matches(layers, p, q, self_r, other_r)
          /\ Reach(layers, {p}, self_r, other_r) = {p, q}

\* The layers without the empty ones.
NonEmptyLayers(ls) == SelectSeq(ls, LAMBDA l : l # <<>>)

\* C9: empty layers add no entry and change nothing: the adjacency list and the
\* partition are those of the layers without the empty ones (so every point
\* keeps its global index), and both are empty when every layer is empty.
C9_EmptyLayersIgnored ==
    /\ AfterOneCluster =>
          /\ ret.val = Clustered(NonEmptyLayers(layers), self_r, other_r).match_all_layers
          /\ NonEmptyLayers(layers) = <<>> => ret.val = <<>>
    /\ AfterOneCompress =>
          /\ ret.val = Pipeline(NonEmptyLayers(layers), self_r, other_r)
          /\ NonEmptyLayers(layers) = <<>> => DOMAIN ret.val = {}
    /\ \A p \in Pts(layers) :
          \E q \in Pts(NonEmptyLayers(layers)) :
              /\ GlobalIdx(NonEmptyLayers(layers), q) = GlobalIdx(layers, p)
              /\ Coord(NonEmptyLayers(layers), q) = Coord(layers, p)

\* An empty layer lies between two layers whose points share a cluster.
C9_Witness ==
    /\ AfterOneCompress
    /\ \E p \in Pts(layers), q \in Pts(layers) :
          /\ p[1] + 1 < q[1]
          /\ \A i \in (p[1] + 2)..q[1] : layers[i] = <<>>
          /\ SameCluster(ret.val, GlobalIdx(layers, p), GlobalIdx(layers, q))

\* Every layers being empty: the adjacency list is empty.
C9_WitnessAllEmpty ==
    AfterOneCluster /\ Len(layers) >= 2 /\ NonEmptyLayers(layers) = <<>>

\* How often the last call queried the tree of layer i against that of layer j.
QueryCount(i, j) == Cardinality({n \in 1..Len(queries) : queries[n] = <<i, j>>})

\* The neighbour list of every point holds the point itself, only indices of its
\* own and later layers, and none twice.
C10_Directional ==
    \A p \in Pts(layers) :
        LET e == ret.val[GlobalIdx(layers, p) + 1]
        IN  /\ GlobalIdx(layers, p) \in Range(e)
            /\ \A x \in Range(e) : x >= Offset(layers, p[1])
            /\ Cardinality(Range(e)) = Len(e)

\* C10 as claimed: the neighbour lists are directional, and every pair of
\* distinct layers is queried exactly once, from the earlier to the later.
C10_EveryPairQueriedOnce ==
    AfterOneCluster =>
        /\ C10_Directional
        /\ \A i \in 0..(Len(layers) - 1), j \in 0..(Len(layers) - 1) :
              i < j => QueryCount(i, j) = 1 /\ QueryCount(j, i) = 0

\* C10 as amended: the neighbour lists are directional, and every pair of
\* distinct non-empty layers is queried exactly once, from the earlier to the
\* later; a pair with an empty layer is not queried.
C10_NonEmptyPairsQueriedOnce ==
    AfterOneCluster =>
        /\ C10_Directional
        /\ \A i \in 0..(Len(layers) - 1), j \in 0..(Len(layers) - 1) :
              i < j =>
                  /\ QueryCount(i, j) =
                        (IF layers[i + 1] # <<>> /\ layers[j + 1] # <<>> THEN 1 ELSE 0)
                  /\ QueryCount(j, i) = 0

\* Three non-empty layers, with a match stored under the point of the earlier
\* layer and not under the point of the later one.
C10_Witness ==
    /\ AfterOneCluster
    /\ Len(layers) >= 3
    /\ \A i \in 1..Len(layers) : layers[i] # <<>>
    /\ QueryCount(0, 2) = 1
    /\ \E p \in Pts(layers), q \in Pts(layers) :
          /\ p[1] < q[1]
          /\ GlobalIdx(layers, q) \in Range(ret.val[GlobalIdx(layers, p) + 1])
          /\ GlobalIdx(layers, p) \notin Range(ret.val[GlobalIdx(layers, q) + 1])

====
